---- MODULE Spec2Model ----
(***************************************************************************)
(* Model of ultrasequence/sequencer.py: frame extraction, File records,    *)
(* Sequence aggregation, range compression and the directory Parser.       *)
(* Python strings are modelled as sequences of one-character strings.      *)
(***************************************************************************)
EXTENDS Integers, Sequences, FiniteSets, TLC

VARIABLES
    name,             \* extract_frame: the argument
    parts,            \* extract_frame: the returned 3-tuple (<<>> before the call)
    frame_list,       \* frame_ranges_to_string: the caller's list object
    arg_list,         \* the value of that list when the call was made
    complete_string,  \* frame_ranges_to_string: the returned string (<<>> before the call)
    obj,              \* which object the caller drives: "Sequence", "Parser" or "none"
    seq,              \* a Sequence object used directly by a caller
    arg,              \* the argument of the last Sequence.append call
    appended,         \* the appends that returned, in order: the path and the
                      \* Sequence's padding when the call was made
    file_arg,         \* File(filepath): the argument
    made,             \* File(filepath): <<the new File>> (<<>> before the call)
    raised,           \* the exception the last call raised ("" when it returned)
    parser,           \* a Parser object
    config,           \* the arguments the Parser was constructed with
    pc,               \* position of the caller in Parser.parse_directory
    file_list,        \* parse_directory: the entries still to be sorted
    listing,          \* what get_files_in_directory returned to the current pass
    passes            \* number of parse_directory calls made so far

extractVars == <<name, parts>>
rangeVars == <<frame_list, arg_list, complete_string>>
seqVars == <<seq, arg, appended>>
fileVars == <<file_arg, made>>
parserVars == <<parser, config, pc, file_list, listing, passes>>
vars == <<name, parts, frame_list, arg_list, complete_string, obj, seq, arg, raised,
          parser, config, pc, file_list, listing, passes, appended, file_arg, made>>

\* ---------------------------------------------------------------- bounds
MaxLen == 4          \* longest stem given to extract_frame
MaxPathLen == 4      \* longest path given to File
MaxFiles == 3        \* most entries in one directory listing
MaxPasses == 2       \* most parse_directory calls on one Parser
MaxFrame == 10       \* largest integer in a list given to frame_ranges_to_string

\* ---------------------------------------------------------------- strings
DigitChars == <<"0", "1", "2", "3", "4", "5", "6", "7", "8", "9">>

IsDigit(c) == \E d \in 1..10 : DigitChars[d] = c

DigitVal(c) == (CHOOSE d \in 1..10 : DigitChars[d] = c) - 1

RECURSIVE int(_)
int(s) == IF s = <<>> THEN 0
          ELSE 10 * int(SubSeq(s, 1, Len(s) - 1)) + DigitVal(s[Len(s)])

RECURSIVE str(_)
str(n) == IF n < 10 THEN <<DigitChars[n + 1]>>
          ELSE str(n \div 10) \o <<DigitChars[(n % 10) + 1]>>

HasDigit(s) == \E i \in 1..Len(s) : IsDigit(s[i])

Max(S) == CHOOSE x \in S : \A y \in S : y <= x
Min(S) == CHOOSE x \in S : \A y \in S : x <= y

\* ---------------------------------------------------------------- extract_frame
\* FRAMENUM_RE = ((.*)(\D))?(\d+)(.*) : the positions i at which the optional
\* group can end, i.e. name[i] is \D and \d+ can start at i+1.
FRAMENUM_RE(s) == {i \in 1..(Len(s) - 1) : ~IsDigit(s[i]) /\ IsDigit(s[i + 1])}

\* End of the greedy \d+ that starts at position b.
DigitRunEnd(s, b) == Max({e \in b..Len(s) : \A k \in b..e : IsDigit(s[k])})

extract_frame_leftmost(s) ==
    IF FRAMENUM_RE(s) # {}
    THEN LET i == Min(FRAMENUM_RE(s))
             e == DigitRunEnd(s, i + 1)
         IN <<SubSeq(s, 1, i), SubSeq(s, i + 1, e), SubSeq(s, e + 1, Len(s))>>
    ELSE IF Len(s) > 0 /\ IsDigit(s[1])
    THEN LET e == DigitRunEnd(s, 1)
         IN <<<<>>, SubSeq(s, 1, e), SubSeq(s, e + 1, Len(s))>>
    ELSE <<s, <<>>, <<>>>>

extract_frame(s) ==
    IF FRAMENUM_RE(s) # {}
    THEN \* group 1 takes part: greedy (.*) backtracks from the right, so the
         \* group ends at the last position that lets \d+ match
         LET i == Max(FRAMENUM_RE(s))
             e == DigitRunEnd(s, i + 1)
         IN <<SubSeq(s, 1, i), SubSeq(s, i + 1, e), SubSeq(s, e + 1, Len(s))>>
    ELSE IF Len(s) > 0 /\ IsDigit(s[1])
    THEN \* group 1 is skipped (None -> ''), \d+ matches at the start
         LET e == DigitRunEnd(s, 1)
         IN <<<<>>, SubSeq(s, 1, e), SubSeq(s, e + 1, Len(s))>>
    ELSE \* no match
         <<s, <<>>, <<>>>>

\* ---------------------------------------------------------------- frame_ranges_to_string
RECURSIVE GroupRanges(_, _)
\* the loop "for x in frame_list" over the remaining elements rest
GroupRanges(ranges, rest) ==
    IF rest = <<>> THEN ranges
    ELSE LET x == Head(rest)
             range_i == Len(ranges)
             cur == ranges[range_i]
         IN IF x - 1 = cur[Len(cur)]
            THEN GroupRanges([ranges EXCEPT ![range_i] = Append(cur, x)], Tail(rest))
            ELSE GroupRanges(Append(ranges, <<x>>), Tail(rest))

RangeToStringPairOnly(x) ==
    IF Len(x) > 2 THEN str(x[1]) \o <<"-">> \o str(x[Len(x)])
    ELSE str(x[1])

RangeToString(x) ==
    IF Len(x) > 1 THEN str(x[1]) \o <<"-">> \o str(x[Len(x)])
    ELSE str(x[1])

RECURSIVE Join(_, _)
Join(sep, list) ==
    IF list = <<>> THEN <<>>
    ELSE IF Len(list) = 1 THEN list[1]
    ELSE list[1] \o sep \o Join(sep, Tail(list))

\* Returns the string and the state of the caller's list after the call.
frame_ranges_to_string(list) ==
    IF list = <<>> THEN [ret |-> <<"[", "]">>, frame_list |-> list]
    ELSE LET first == Head(list)
             popped == Tail(list)          \* frame_list.pop(0) on the caller's list
             ranges == GroupRanges(<<<<first>>>>, popped)
             list_of_ranges == [k \in 1..Len(ranges) |-> RangeToString(ranges[k])]
         IN [ret |-> <<"[">> \o Join(<<",", " ">>, list_of_ranges) \o <<"]">>,
             frame_list |-> popped]

\* ---------------------------------------------------------------- inputs
StemChars == {"a", ".", "1", "2"}

RECURSIVE StringsUpTo(_, _)
StringsUpTo(chars, n) ==
    IF n = 0 THEN {<<>>}
    ELSE LET shorter == StringsUpTo(chars, n - 1)
         IN shorter \cup {Append(s, c) : s \in shorter, c \in chars}

RECURSIVE SortedList(_)
SortedList(S) == IF S = {} THEN <<>>
                 ELSE <<Min(S)>> \o SortedList(S \ {Min(S)})

Elems(list) == {list[i] : i \in 1..Len(list)}

SortedLists == {SortedList(S) : S \in SUBSET (0..MaxFrame)}


\* file paths the callers use
P_a_1_x == <<"/", "d", "/", "a", ".", "1", ".", "x">>
P_a_2_x == <<"/", "d", "/", "a", ".", "2", ".", "x">>
P_a_01_x == <<"/", "d", "/", "a", ".", "0", "1", ".", "x">>
P_a_04_x == <<"/", "d", "/", "a", ".", "0", "4", ".", "x">>
P_b_x == <<"/", "d", "/", "b", ".", "x">>
P_a_1_Y == <<"/", "d", "/", "a", ".", "1", ".", "Y">>
P_a1h_x == <<"/", "d", "/", "a", "1", "#", ".", "x">>
P_ah2_x == <<"/", "d", "/", "a", "#", "2", ".", "x">>
P_c_2_y == <<"/", "e", "/", "c", ".", "2", ".", "y">>

SeqPaths == {P_a_1_x, P_a_2_x, P_a_01_x, P_a_04_x, P_b_x, P_a1h_x, P_ah2_x, P_c_2_y}

AppendArgs == [kind : {"File", "str"}, path : SeqPaths]
NoArg == [kind |-> "none", path |-> <<>>]

\* ---------------------------------------------------------------- os.path, str methods
UpperChars == <<"A", "B", "C", "D", "E", "F", "G", "H", "I", "J", "K", "L", "M",
                "N", "O", "P", "Q", "R", "S", "T", "U", "V", "W", "X", "Y", "Z">>
LowerChars == <<"a", "b", "c", "d", "e", "f", "g", "h", "i", "j", "k", "l", "m",
                "n", "o", "p", "q", "r", "s", "t", "u", "v", "w", "x", "y", "z">>

\* str.lower()
lower(s) ==
    [i \in 1..Len(s) |->
        IF \E k \in 1..26 : UpperChars[k] = s[i]
        THEN LowerChars[CHOOSE k \in 1..26 : UpperChars[k] = s[i]]
        ELSE s[i]]

RECURSIVE rstrip(_, _)
rstrip(s, c) == IF s # <<>> /\ s[Len(s)] = c THEN rstrip(SubSeq(s, 1, Len(s) - 1), c)
                ELSE s

\* posixpath.split: cut after the last '/', strip trailing slashes of the
\* directory unless it consists of slashes only
os_path_split(p) ==
    LET slashes == {i \in 1..Len(p) : p[i] = "/"}
        i == IF slashes = {} THEN 0 ELSE Max(slashes)
        h == SubSeq(p, 1, i)
        t == SubSeq(p, i + 1, Len(p))
    IN <<IF h # <<>> /\ (\E k \in 1..Len(h) : h[k] # "/") THEN rstrip(h, "/") ELSE h, t>>

\* posixpath.join of two components
os_path_join(a, b) ==
    IF b # <<>> /\ b[1] = "/" THEN b
    ELSE IF a = <<>> \/ a[Len(a)] = "/" THEN a \o b
    ELSE a \o <<"/">> \o b

\* ---------------------------------------------------------------- split_extension
split_extension(filename) ==
    LET dots == {i \in 1..Len(filename) : filename[i] = "."}
    IN IF dots = {} THEN <<filename, <<>>>>
       ELSE <<SubSeq(filename, 1, Max(dots) - 1),
              SubSeq(filename, Max(dots) + 1, Len(filename))>>

\* ---------------------------------------------------------------- File
None == -1

\* the attributes File.__init__ sets (the stat attributes play no part in
\* sequencing), from the results of the three calls it makes
FileAttributes(filepath, dir_name, base_ext, fparts) ==
    [abspath |-> filepath,
     dir |-> dir_name[1],
     name |-> dir_name[2],
     _base |-> base_ext[1],
     ext |-> base_ext[2],
     namehead |-> fparts[1],
     _framenum |-> fparts[2],
     head |-> os_path_join(dir_name[1], fparts[1]),
     tail |-> IF base_ext[2] = <<>> THEN <<>> ELSE fparts[3] \o <<".">> \o base_ext[2],
     padding |-> Len(fparts[2])]

\* File.__init__
File(filepath) ==
    FileAttributes(filepath,
                   os_path_split(filepath),
                   split_extension(os_path_split(filepath)[2]),
                   extract_frame(split_extension(os_path_split(filepath)[2])[1]))

\* File.frame
frame(file) == IF file._framenum = <<>> THEN None ELSE int(file._framenum)

\* File.get_seq_key
get_seq_key(file, ip) ==
    LET digits == IF file._framenum = <<>> THEN <<>>
                  ELSE IF ip THEN <<"#">>
                  ELSE <<"%", "0">> \o str(file.padding) \o <<"d">>
    IN file.head \o digits \o file.tail

\* ---------------------------------------------------------------- Sequence
\* Sequence.__init__ before the optional first append
NewSequence(ip) ==
    [_frames |-> <<>>,
     seq_name |-> <<>>,
     dir |-> <<>>,
     namehead |-> <<>>,
     head |-> <<>>,
     tail |-> <<>>,
     ext |-> <<>>,
     padding |-> 0,
     inconsistent_padding |-> FALSE,
     ignore_padding |-> ip]

frames(self) == Cardinality(DOMAIN self._frames)
start(self) == Min(DOMAIN self._frames)
end(self) == Max(DOMAIN self._frames)
implied_frames(self) == end(self) - start(self) + 1

missing_frames_off_by_one(self) == end(self) - start(self) - frames(self)

missing_frames(self) == end(self) - (start(self) - 1) - frames(self)

is_missing_frames(self) == frames(self) # implied_frames(self)

get_frames(self) == SortedList(DOMAIN self._frames)

get_missing_frames(self) ==
    LET implied == [k \in 1..(end(self) + 1 - start(self)) |-> start(self) + k - 1]
        absent(f) == f \notin DOMAIN self._frames
    IN SelectSeq(implied, absent)

Insert(self, file) == [self EXCEPT !._frames = (frame(file) :> file) @@ @]

append_file_padding_first(self, kind, file) ==
    IF kind = "str" /\ frames(self) > 0
         /\ get_seq_key(file, self.ignore_padding) # self.seq_name
    THEN [self |-> self, raised |-> "ValueError: not a member"]
    ELSE IF frame(file) = None
    THEN [self |-> self, raised |-> "ValueError: can not be sequenced"]
    ELSE IF frames(self) = 0
    THEN [self |-> Insert([self EXCEPT !.namehead = file.namehead,
                                       !.dir = file.dir,
                                       !.head = file.head,
                                       !.tail = file.tail,
                                       !.ext = file.ext,
                                       !.padding = file.padding,
                                       !.seq_name = get_seq_key(file, self.ignore_padding)],
                          file),
          raised |-> ""]
    ELSE IF self.padding < file.padding
    THEN [self |-> Insert([self EXCEPT !.inconsistent_padding = TRUE,
                                       !.padding = file.padding], file),
          raised |-> ""]
    ELSE IF frame(file) \in DOMAIN self._frames
    THEN [self |-> self, raised |-> "IndexError"]
    ELSE [self |-> Insert(self, file), raised |-> ""]

append_file_flags_equal_padding(self, kind, file) ==
    IF kind = "str" /\ frames(self) > 0
         /\ get_seq_key(file, self.ignore_padding) # self.seq_name
    THEN [self |-> self, raised |-> "ValueError: not a member"]
    ELSE IF frame(file) = None
    THEN [self |-> self, raised |-> "ValueError: can not be sequenced"]
    ELSE IF frames(self) = 0
    THEN [self |-> Insert([self EXCEPT !.namehead = file.namehead,
                                       !.dir = file.dir,
                                       !.head = file.head,
                                       !.tail = file.tail,
                                       !.ext = file.ext,
                                       !.padding = file.padding,
                                       !.seq_name = get_seq_key(file, self.ignore_padding)],
                          file),
          raised |-> ""]
    ELSE IF frame(file) \in DOMAIN self._frames
    THEN [self |-> self, raised |-> "IndexError"]
    ELSE IF self.padding <= file.padding
    THEN [self |-> Insert([self EXCEPT !.inconsistent_padding = TRUE,
                                       !.padding = file.padding], file),
          raised |-> ""]
    ELSE [self |-> Insert(self, file), raised |-> ""]

\* Sequence.append once the argument is a File: kind tells whether it was
\* given as a File instance or built from a str
append_file(self, kind, file) ==
    IF kind = "str" /\ frames(self) > 0
         /\ get_seq_key(file, self.ignore_padding) # self.seq_name
    THEN [self |-> self, raised |-> "ValueError: not a member"]
    ELSE IF frame(file) = None
    THEN [self |-> self, raised |-> "ValueError: can not be sequenced"]
    ELSE IF frames(self) = 0
    THEN [self |-> Insert([self EXCEPT !.namehead = file.namehead,
                                       !.dir = file.dir,
                                       !.head = file.head,
                                       !.tail = file.tail,
                                       !.ext = file.ext,
                                       !.padding = file.padding,
                                       !.seq_name = get_seq_key(file, self.ignore_padding)],
                          file),
          raised |-> ""]
    ELSE IF frame(file) \in DOMAIN self._frames
    THEN [self |-> self, raised |-> "IndexError"]
    ELSE IF self.padding < file.padding
    THEN [self |-> Insert([self EXCEPT !.inconsistent_padding = TRUE,
                                       !.padding = file.padding], file),
          raised |-> ""]
    ELSE [self |-> Insert(self, file), raised |-> ""]

\* Sequence.append: the object afterwards and the exception raised
append(self, a) == append_file(self, a.kind, File(a.path))

\* Sequence(file, ignore_padding) with a File given
Sequence(file, ip) == append(NewSequence(ip), [kind |-> "File", path |-> file.abspath]).self

\* ---------------------------------------------------------------- extract_frame spec
InitExtractVars == name \in StringsUpTo(StemChars, MaxLen) /\ parts = <<>>
IdleExtractVars == name = <<>> /\ parts = <<>>

ExtractFrame ==
    /\ parts = <<>>
    /\ parts' = extract_frame(name)
    /\ UNCHANGED name

\* ---------------------------------------------------------------- frame_ranges_to_string spec
InitRangeVars ==
    /\ frame_list \in SortedLists
    /\ arg_list = frame_list
    /\ complete_string = <<>>
IdleRangeVars == frame_list = <<>> /\ arg_list = <<>> /\ complete_string = <<>>

FrameRangesToString ==
    /\ complete_string = <<>>
    /\ LET r == frame_ranges_to_string(frame_list)
       IN /\ complete_string' = r.ret
          /\ frame_list' = r.frame_list
    /\ UNCHANGED arg_list

\* ---------------------------------------------------------------- Sequence used directly
InitSeqVars == seq \in {NewSequence(ip) : ip \in BOOLEAN} /\ arg = NoArg /\ appended = <<>>
IdleSeqVars == seq = NewSequence(TRUE) /\ arg = NoArg /\ appended = <<>>

SequenceAppend ==
    /\ obj = "Sequence"
    /\ \E a \in AppendArgs :
          \E r \in {append(seq, a)} :
             /\ seq' = r.self
             /\ raised' = r.raised
             /\ arg' = a
             /\ appended' = IF r.raised = ""
                             THEN Append(appended, [path |-> a.path, padding |-> seq.padding])
                             ELSE appended
    /\ UNCHANGED obj

\* ---------------------------------------------------------------- Parser
_reset_keeps_collisions(self) ==
    [self EXCEPT !._sequences = <<>>,
                 !.sequences = <<>>,
                 !.single_frames = <<>>,
                 !.non_sequences = <<>>,
                 !.excluded = <<>>,
                 !.parsed = FALSE]

\* Parser._reset
_reset(self) ==
    [self EXCEPT !._sequences = <<>>,
                 !.sequences = <<>>,
                 !.single_frames = <<>>,
                 !.non_sequences = <<>>,
                 !.excluded = <<>>,
                 !.collisions = <<>>,
                 !.parsed = FALSE]

\* Parser.__init__ (get_stats only decides whether stat data is attached)
Parser(include_exts, ip) ==
    _reset([ignore_padding |-> ip,
            include_exts |-> IF include_exts = {} THEN {}
                             ELSE {lower(e) : e \in include_exts},
            _sequences |-> <<>>,
            sequences |-> <<>>,
            single_frames |-> <<>>,
            non_sequences |-> <<>>,
            excluded |-> <<>>,
            collisions |-> <<>>,
            parsed |-> FALSE])

append_caught_dropped(self, file_, seq_name, r) ==
    IF r.raised = "IndexError"
    THEN [self |-> [self EXCEPT !._sequences[seq_name] = r.self], raised |-> ""]
    ELSE [self |-> [self EXCEPT !._sequences[seq_name] = r.self], raised |-> r.raised]

\* the try/except around the append in Parser._sort_file; r is what the
\* append did
append_caught(self, file_, seq_name, r) ==
    IF r.raised = "IndexError"
    THEN [self |-> [self EXCEPT !._sequences[seq_name] = r.self,
                                !.collisions = Append(@, file_)],
          raised |-> ""]
    ELSE [self |-> [self EXCEPT !._sequences[seq_name] = r.self], raised |-> r.raised]

sort_file_frame_first(self, file_, seq_name) ==
    IF frame(file_) = None
    THEN [self |-> [self EXCEPT !.non_sequences = Append(@, file_)], raised |-> ""]
    ELSE IF self.include_exts # {} /\ lower(file_.ext) \notin self.include_exts
    THEN [self |-> [self EXCEPT !.excluded = Append(@, file_)], raised |-> ""]
    ELSE IF seq_name \in DOMAIN self._sequences
    THEN append_caught(self, file_, seq_name,
                       append(self._sequences[seq_name],
                              [kind |-> "File", path |-> file_.abspath]))
    ELSE [self |-> [self EXCEPT !._sequences =
                        (seq_name :> Sequence(file_, self.ignore_padding)) @@ @],
          raised |-> ""]

\* Parser._sort_file once file_ is built and its key computed (the key is
\* used only in the last branch)
sort_file(self, file_, seq_name) ==
    IF self.include_exts # {} /\ lower(file_.ext) \notin self.include_exts
    THEN [self |-> [self EXCEPT !.excluded = Append(@, file_)], raised |-> ""]
    ELSE IF frame(file_) = None
    THEN [self |-> [self EXCEPT !.non_sequences = Append(@, file_)], raised |-> ""]
    ELSE IF seq_name \in DOMAIN self._sequences
    THEN append_caught(self, file_, seq_name,
                       append(self._sequences[seq_name],
                              [kind |-> "File", path |-> file_.abspath]))
    ELSE [self |-> [self EXCEPT !._sequences =
                        (seq_name :> Sequence(file_, self.ignore_padding)) @@ @],
          raised |-> ""]

\* Parser._sort_file: the object afterwards and the exception that propagates
_sort_file(self, path) ==
    sort_file(self, File(path), get_seq_key(File(path), self.ignore_padding))

RECURSIVE cleanup_loop_inverted(_, _)
cleanup_loop_inverted(self, order) ==
    IF order = <<>> THEN self
    ELSE LET s == self._sequences[Head(order)]
             popped == [self EXCEPT !._sequences =
                           [k \in (DOMAIN @) \ {Head(order)} |-> @[k]]]
         IN cleanup_loop_inverted(IF frames(s) > 1
                         THEN [popped EXCEPT !.single_frames = Append(@, s)]
                         ELSE [popped EXCEPT !.sequences = Append(@, s)],
                         Tail(order))

\* the while loop of Parser._cleanup; order is the order in which popitem
\* hands out the keys of the dict
RECURSIVE cleanup_loop(_, _)
cleanup_loop(self, order) ==
    IF order = <<>> THEN self
    ELSE LET s == self._sequences[Head(order)]
             popped == [self EXCEPT !._sequences =
                           [k \in (DOMAIN @) \ {Head(order)} |-> @[k]]]
         IN cleanup_loop(IF frames(s) = 1
                         THEN [popped EXCEPT !.single_frames = Append(@, s)]
                         ELSE [popped EXCEPT !.sequences = Append(@, s)],
                         Tail(order))

\* Parser._cleanup
_cleanup(self, order) == [cleanup_loop(self, order) EXCEPT !.parsed = TRUE]

\* get_files_in_directory: recurse=False hands os.listdir itself (not its
\* result) to add_files, which cannot iterate over it
get_files_in_directory(found, recurse) ==
    IF recurse THEN [file_list |-> found, raised |-> ""]
    ELSE [file_list |-> <<>>, raised |-> "TypeError"]

ParserPaths == {P_a_1_x, P_a_2_x, P_a_01_x, P_a_04_x, P_b_x, P_a_1_Y}

\* the directory listings: every order of up to MaxFiles distinct files
Listings ==
    UNION {{l \in [1..n -> ParserPaths] : \A i, j \in 1..n : l[i] = l[j] => i = j}
           : n \in 0..MaxFiles}

\* the orders in which a dict can hand out its keys
Orders(S) ==
    {o \in [1..Cardinality(S) -> S] : \A i, j \in 1..Cardinality(S) : o[i] = o[j] => i = j}

IncludeOptions == {{}, {<<"x">>}, {<<"Y">>}}

InitParserVars ==
    /\ config \in [include_exts : IncludeOptions, ignore_padding : BOOLEAN]
    /\ parser = Parser(config.include_exts, config.ignore_padding)
    /\ pc = "idle"
    /\ file_list = <<>>
    /\ listing = <<>>
    /\ passes = 0
IdleParserVars ==
    /\ config = [include_exts |-> {}, ignore_padding |-> TRUE]
    /\ parser = Parser({}, TRUE)
    /\ pc = "idle"
    /\ file_list = <<>>
    /\ listing = <<>>
    /\ passes = 0

CanCall == obj = "Parser" /\ pc \in {"idle", "done", "unavailable", "raised"} /\ passes < MaxPasses

\* parse_directory on an available directory, up to the start of the loop
ParseDirectory ==
    /\ CanCall
    /\ \E found \in Listings :
          \E got \in {get_files_in_directory(found, TRUE)} :
             /\ parser' = _reset(parser)
             /\ file_list' = got.file_list
             /\ listing' = got.file_list
             /\ raised' = got.raised
             /\ pc' = "loop"
    /\ passes' = passes + 1
    /\ UNCHANGED <<obj, config>>

\* parse_directory(directory, recurse=False) on an available directory: the
\* listing fails whatever the directory holds
ParseDirectoryNoRecurse ==
    /\ CanCall
    /\ \E found \in {<<>>} :
          \E got \in {get_files_in_directory(found, FALSE)} :
             /\ parser' = _reset(parser)
             /\ file_list' = got.file_list
             /\ listing' = got.file_list
             /\ raised' = got.raised
             /\ pc' = "raised"
    /\ passes' = passes + 1
    /\ UNCHANGED <<obj, config>>

\* parse_directory on something that is not an available directory
ParseDirectoryUnavailable ==
    /\ CanCall
    /\ parser' = _reset(parser)
    /\ file_list' = <<>>
    /\ listing' = <<>>
    /\ raised' = ""
    /\ pc' = "unavailable"
    /\ passes' = passes + 1
    /\ UNCHANGED <<obj, config>>

\* one iteration of the while loop of parse_directory
SortFile ==
    /\ obj = "Parser" /\ pc = "loop" /\ file_list # <<>>
    /\ \E r \in {_sort_file(parser, Head(file_list))} :
          /\ parser' = r.self
          /\ raised' = r.raised
          /\ pc' = IF r.raised = "" THEN "loop" ELSE "raised"
    /\ file_list' = Tail(file_list)
    /\ UNCHANGED <<obj, config, listing, passes>>

\* the loop is over: _cleanup ends the pass
Cleanup ==
    /\ obj = "Parser" /\ pc = "loop" /\ file_list = <<>>
    /\ \E order \in Orders(DOMAIN parser._sequences) :
          parser' = _cleanup(parser, order)
    /\ pc' = "done"
    /\ UNCHANGED <<obj, config, file_list, listing, passes, raised>>

\* ---------------------------------------------------------------- File spec
PathChars == {"/", "a", ".", "1", "#"}

InitFileVars == file_arg \in StringsUpTo(PathChars, MaxPathLen) /\ made = <<>>
IdleFileVars == file_arg = <<>> /\ made = <<>>

\* File(filepath)
MakeFile ==
    /\ made = <<>>
    /\ made' = <<File(file_arg)>>
    /\ UNCHANGED file_arg

\* ---------------------------------------------------------------- specifications
InitFile ==
    /\ InitFileVars /\ IdleExtractVars /\ IdleRangeVars /\ IdleSeqVars /\ IdleParserVars
    /\ obj = "none" /\ raised = ""
NextFile == MakeFile /\ UNCHANGED <<extractVars, rangeVars, seqVars, parserVars, obj, raised>>
SpecFile == InitFile /\ [][NextFile]_vars

InitExtract ==
    /\ InitExtractVars /\ IdleRangeVars /\ IdleSeqVars /\ IdleParserVars /\ IdleFileVars
    /\ obj = "none" /\ raised = ""
NextExtract == ExtractFrame /\ UNCHANGED <<rangeVars, seqVars, parserVars, fileVars, obj, raised>>
SpecExtract == InitExtract /\ [][NextExtract]_vars

InitRanges ==
    /\ InitRangeVars /\ IdleExtractVars /\ IdleSeqVars /\ IdleParserVars /\ IdleFileVars
    /\ obj = "none" /\ raised = ""
NextRanges == FrameRangesToString /\ UNCHANGED <<extractVars, seqVars, parserVars, fileVars, obj, raised>>
SpecRanges == InitRanges /\ [][NextRanges]_vars

\* a caller that builds one object, a Sequence or a Parser, and drives it
Init ==
    /\ IdleExtractVars
    /\ IdleRangeVars
    /\ IdleFileVars
    /\ raised = ""
    /\ \/ obj = "Sequence" /\ InitSeqVars /\ IdleParserVars
       \/ obj = "Parser" /\ InitParserVars /\ IdleSeqVars
Next ==
    \/ SequenceAppend /\ UNCHANGED <<extractVars, rangeVars, fileVars, parserVars>>
    \/ ParseDirectory /\ UNCHANGED <<extractVars, rangeVars, fileVars, seqVars>>
    \/ ParseDirectoryNoRecurse /\ UNCHANGED <<extractVars, rangeVars, fileVars, seqVars>>
    \/ ParseDirectoryUnavailable /\ UNCHANGED <<extractVars, rangeVars, fileVars, seqVars>>
    \/ SortFile /\ UNCHANGED <<extractVars, rangeVars, fileVars, seqVars>>
    \/ Cleanup /\ UNCHANGED <<extractVars, rangeVars, fileVars, seqVars>>
Spec == Init /\ [][Next]_vars

\* ---------------------------------------------------------------- observers
Members(s) == {s._frames[k] : k \in DOMAIN s._frames}

\* how often the file with path p occurs in a list of File objects
CountFiles(list, p) == Cardinality({i \in 1..Len(list) : list[i].abspath = p})

\* how often it occurs as a member of the Sequences of a list
CountMembers(seqs, p) ==
    Cardinality(UNION {{<<i, k>> : k \in {k \in DOMAIN seqs[i]._frames :
                                             seqs[i]._frames[k].abspath = p}}
                       : i \in 1..Len(seqs)})

\* ... and of the Sequences of the working map
CountWorking(map, p) ==
    Cardinality(UNION {{<<key, k>> : k \in {k \in DOMAIN map[key]._frames :
                                               map[key]._frames[k].abspath = p}}
                       : key \in DOMAIN map})

\* the number of places of the five buckets in which the file with path p is
Places(p) ==
    CountMembers(parser.sequences, p) + CountMembers(parser.single_frames, p)
        + CountFiles(parser.non_sequences, p) + CountFiles(parser.excluded, p)
        + CountFiles(parser.collisions, p)

\* the files the current pass has sorted so far
Sorted == {listing[i] : i \in 1..(Len(listing) - Len(file_list))}

\* the extension is in the configured allow-list, letter case ignored
Allowed(p) == \E e \in config.include_exts : lower(e) = lower(File(p).ext)

RECURSIVE SumFrames(_)
SumFrames(seqs) == IF seqs = <<>> THEN 0 ELSE frames(Head(seqs)) + SumFrames(Tail(seqs))

\* ---------------------------------------------------------------- C1
\* C1: after a completed pass every file of the listing is in exactly one
\* place among the members of the sequences, the members of the single
\* frames, the non-sequences, the excluded and the collisions, and the
\* member counts plus the three list lengths add up to the number of files.
C1_EveryFileInOnePlace ==
    (obj = "Parser" /\ pc = "done") =>
        /\ \A p \in ParserPaths : Places(p) = IF p \in Elems(listing) THEN 1 ELSE 0
        /\ SumFrames(parser.sequences) + SumFrames(parser.single_frames)
              + Len(parser.non_sequences) + Len(parser.excluded)
              + Len(parser.collisions) = Len(listing)

C1_Witness ==
    /\ obj = "Parser" /\ pc = "done"
    /\ Len(listing) = 3
    /\ Len(parser.sequences) = 1
    /\ Len(parser.collisions) = 1

\* ---------------------------------------------------------------- C2
\* C2: an append whose frame number is already in the Sequence fails with
\* the duplicate-frame error (IndexError) and leaves the Sequence as it was;
\* in the Parser the rejected file goes to collisions and nothing else
\* changes.  (A str argument of another key fails the membership test
\* first; it too leaves the Sequence as it was.)
C2_DuplicateRejected ==
    [][/\ obj = "Sequence" =>
            LET file == File(arg'.path)
            IN (arg'.kind # "none" /\ frame(file) \in DOMAIN seq._frames) =>
                  /\ seq' = seq
                  /\ raised' # ""
                  /\ (arg'.kind = "File"
                        \/ get_seq_key(file, seq.ignore_padding) = seq.seq_name)
                     => raised' = "IndexError"
       /\ (obj = "Parser" /\ pc = "loop" /\ file_list # <<>>) =>
            LET file == File(Head(file_list))
                key == get_seq_key(file, parser.ignore_padding)
            IN (/\ config.include_exts = {} \/ Allowed(Head(file_list))
                /\ key \in DOMAIN parser._sequences
                /\ frame(file) \in DOMAIN parser._sequences[key]._frames) =>
                  /\ parser' = [parser EXCEPT !.collisions = Append(@, file)]
                  /\ raised' = ""
      ]_vars

C2_Witness ==
    /\ obj = "Parser" /\ pc = "loop"
    /\ Len(parser.collisions) = 1
    /\ \E key \in DOMAIN parser._sequences :
          /\ frames(parser._sequences[key]) = 2
          /\ frame(parser.collisions[1]) \in DOMAIN parser._sequences[key]._frames
          /\ parser.collisions[1] \notin Members(parser._sequences[key])

\* ---------------------------------------------------------------- C3
\* C3: every member of a Sequence built by appends (File objects or path
\* strings) has a frame number, has the Sequence's key, head and tail, and,
\* when padding is enforced, the padding of every other member.
C3_MembersShareKey ==
    obj = "Sequence" =>
        \A m \in Members(seq) :
            /\ frame(m) # None
            /\ get_seq_key(m, seq.ignore_padding) = seq.seq_name
            /\ m.head = seq.head
            /\ m.tail = seq.tail
            /\ ~seq.ignore_padding => \A m2 \in Members(seq) : m2.padding = m.padding

\* ---------------------------------------------------------------- C4
\* C4: after _cleanup every Sequence in sequences has at least 2 frames,
\* every Sequence in single_frames has exactly 1, the working map is empty
\* and parsed is true.
C4_CleanupBuckets ==
    (obj = "Parser" /\ pc = "done") =>
        /\ \A i \in 1..Len(parser.sequences) : frames(parser.sequences[i]) >= 2
        /\ \A i \in 1..Len(parser.single_frames) : frames(parser.single_frames[i]) = 1
        /\ DOMAIN parser._sequences = {}
        /\ parser.parsed = TRUE

C4_Witness ==
    /\ obj = "Parser" /\ pc = "done"
    /\ Len(parser.sequences) = 1
    /\ Len(parser.single_frames) = 1

\* ---------------------------------------------------------------- C5
\* every Sequence object of the state
AllSequences ==
    IF obj = "Sequence" THEN {seq}
    ELSE {parser._sequences[k] : k \in DOMAIN parser._sequences}
            \cup Elems(parser.sequences) \cup Elems(parser.single_frames)

\* C5: for a non-empty Sequence missing_frames equals the length of
\* get_missing_frames(), which is the ascending list of the integers of
\* [start, end] that are no keys of the frame map; missing_frames is not
\* negative and is_missing_frames says whether that list is non-empty.
C5_MissingFrames ==
    \A s \in AllSequences :
        frames(s) > 0 =>
            LET lo == Min(DOMAIN s._frames)
                hi == Max(DOMAIN s._frames)
            IN /\ missing_frames(s) = Len(get_missing_frames(s))
               /\ get_missing_frames(s) = SortedList({k \in lo..hi : k \notin DOMAIN s._frames})
               /\ missing_frames(s) >= 0
               /\ is_missing_frames(s) <=> get_missing_frames(s) # <<>>

C5_Witness ==
    /\ obj = "Sequence"
    /\ frames(seq) = 2
    /\ missing_frames(seq) = 2

\* ---------------------------------------------------------------- C8
\* C8: with an allow-list every sorted file whose extension is not in it
\* (case-insensitively) is in excluded once and nowhere else, with or
\* without a frame number; without an allow-list excluded stays empty.
C8_ExcludedByExtension ==
    obj = "Parser" =>
        /\ config.include_exts = {} => parser.excluded = <<>>
        /\ config.include_exts # {} =>
              \A p \in Sorted :
                  ~Allowed(p) =>
                      /\ CountFiles(parser.excluded, p) = 1
                      /\ CountFiles(parser.non_sequences, p) = 0
                      /\ CountFiles(parser.collisions, p) = 0
                      /\ CountWorking(parser._sequences, p) = 0
                      /\ CountMembers(parser.sequences, p) = 0
                      /\ CountMembers(parser.single_frames, p) = 0

C8_Witness ==
    /\ obj = "Parser" /\ pc = "done"
    /\ Len(parser.excluded) = 2
    /\ frame(parser.excluded[1]) = None
    /\ frame(parser.excluded[2]) # None
    /\ Len(parser.single_frames) = 1

\* ---------------------------------------------------------------- C10
\* C10: every pass starts from reset state: at any moment the buckets, the
\* working map and the entries still to sort hold exactly the files of the
\* most recent listing, whatever earlier passes left; a pass on an
\* unavailable directory leaves buckets and working map empty and raises
\* nothing.
C10_PassStartsFromReset ==
    obj = "Parser" =>
        /\ \A p \in ParserPaths :
              Places(p) + CountWorking(parser._sequences, p)
                  + Cardinality({i \in 1..Len(file_list) : file_list[i] = p})
                = Cardinality({i \in 1..Len(listing) : listing[i] = p})
        /\ pc = "unavailable" =>
              /\ parser.sequences = <<>>
              /\ parser.single_frames = <<>>
              /\ parser.non_sequences = <<>>
              /\ parser.excluded = <<>>
              /\ parser.collisions = <<>>
              /\ DOMAIN parser._sequences = {}
              /\ raised = ""

C10_Witness ==
    /\ obj = "Parser" /\ pc = "done"
    /\ passes = 2
    /\ Len(listing) = 1
    /\ Len(parser.non_sequences) = 1

\* ---------------------------------------------------------------- C11
\* C11: after successful appends the Sequence's padding is the largest
\* padding of its members, inconsistent_padding is true exactly when some
\* append after the first brought a padding greater than the padding the
\* Sequence had at that moment, and dir, namehead, head, tail, ext and
\* seq_name are those of the first appended record.
C11_PaddingAndIdentity ==
    (obj = "Sequence" /\ appended # <<>>) =>
        /\ Members(seq) = {File(appended[i].path) : i \in 1..Len(appended)}
        /\ seq.padding = Max({m.padding : m \in Members(seq)})
        /\ seq.inconsistent_padding <=>
              \E i \in 2..Len(appended) :
                  File(appended[i].path).padding > appended[i].padding
        /\ \E first \in {File(appended[1].path)} :
              /\ seq.dir = first.dir
              /\ seq.namehead = first.namehead
              /\ seq.head = first.head
              /\ seq.tail = first.tail
              /\ seq.ext = first.ext
              /\ seq.seq_name = get_seq_key(first, seq.ignore_padding)

C11_Witness ==
    /\ obj = "Sequence"
    /\ Len(appended) = 3
    /\ seq.inconsistent_padding
    /\ File(appended[1].path).padding = 1
    /\ File(appended[2].path).padding = 2
    /\ File(appended[3].path).padding = 1
    /\ File(appended[3].path).head # seq.head

\* ---------------------------------------------------------------- C12
\* C12: for every File built from a path whose name has a frame number,
\* head + frame digits + tail is the path the File was built from, so that
\* putting the frame digits in place of the placeholder of the sequence key
\* gives the path back.
C12_HeadDigitsTailIsPath ==
    (made # <<>> /\ frame(made[1]) # None) =>
        made[1].head \o made[1]._framenum \o made[1].tail = file_arg

\* ---------------------------------------------------------------- C7
\* C7: extract_frame returns (head, frame, tail) that concatenate to the
\* stem; with a digit in the stem, frame is the rightmost maximal digit run
\* (non-empty, all digits, tail digit-free, head empty or ending in a
\* non-digit); without a digit the result is (stem, '', '').
C7_ExtractRightmostRun ==
    parts # <<>> =>
        LET h == parts[1]
            f == parts[2]
            t == parts[3]
        IN /\ h \o f \o t = name
           /\ HasDigit(name) =>
                /\ f # <<>>
                /\ \A i \in 1..Len(f) : IsDigit(f[i])
                /\ ~HasDigit(t)
                /\ h = <<>> \/ ~IsDigit(h[Len(h)])
           /\ ~HasDigit(name) => parts = <<name, <<>>, <<>>>>

C7_Witness ==
    /\ parts # <<>>
    /\ HasDigit(parts[1])
    /\ Len(parts[2]) = 1
    /\ parts[3] # <<>>

\* ---------------------------------------------------------------- C6
RECURSIVE Split(_, _)
\* s.split(sep) for a non-empty separator
Split(s, sep) ==
    LET n == Len(sep)
        hits == {i \in 1..(Len(s) - n + 1) : SubSeq(s, i, i + n - 1) = sep}
    IN IF hits = {} THEN <<s>>
       ELSE <<SubSeq(s, 1, Min(hits) - 1)>>
                \o Split(SubSeq(s, Min(hits) + n, Len(s)), sep)

\* one item of the string: 'a-b' expands to a..b, 'a' to the number a
ExpandRange(piece) ==
    LET ab == Split(piece, <<"-">>)
    IN IF Len(ab) = 1 THEN <<int(ab[1])>>
       ELSE [k \in 1..(int(ab[2]) - int(ab[1]) + 1) |-> int(ab[1]) + k - 1]

RECURSIVE Concat(_)
Concat(lists) == IF lists = <<>> THEN <<>> ELSE Head(lists) \o Concat(Tail(lists))

\* parse '[a-b, c, ...]' back to the list of integers
ParseRanges(s) ==
    LET body == SubSeq(s, 2, Len(s) - 1)
        pieces == Split(body, <<",", " ">>)
    IN IF body = <<>> THEN <<>>
       ELSE Concat([k \in 1..Len(pieces) |-> ExpandRange(pieces[k])])

\* the maximal runs of consecutive integers of a set, as <<first, last>>, ascending
RunStarts(S) == SortedList({x \in S : x - 1 \notin S})
RunLast(S, lo) == Max({h \in S : \A k \in lo..h : k \in S})
RenderRun(S, lo) ==
    IF RunLast(S, lo) = lo THEN str(lo)
    ELSE str(lo) \o <<"-">> \o str(RunLast(S, lo))

\* C6: for a sorted list of distinct non-negative integers the result is
\* '[' + the maximal runs of consecutive integers joined by ', ' + ']' (a
\* single number for a run of one, 'first-last' otherwise), parsing it back
\* gives the input list, and the empty list gives '[]'.
C6_RangeRoundTrip ==
    complete_string # <<>> =>
        LET S == Elems(arg_list)
            starts == RunStarts(S)
        IN /\ complete_string =
                <<"[">> \o Join(<<",", " ">>,
                                [k \in 1..Len(starts) |-> RenderRun(S, starts[k])])
                        \o <<"]">>
           /\ ParseRanges(complete_string) = arg_list
           /\ arg_list = <<>> => complete_string = <<"[", "]">>

C6_Witness ==
    /\ complete_string # <<>>
    /\ Len(arg_list) >= 4
    /\ Len(RunStarts(Elems(arg_list))) = 3
    /\ \E i \in 1..Len(complete_string) : complete_string[i] = "-"

\* ---------------------------------------------------------------- C9
\* C9: frame_ranges_to_string leaves the list it is called with unchanged
\* (same elements, same length).
C9_ListUnchanged ==
    complete_string # <<>> => frame_list = arg_list

====
